---- MODULE Spec2Model ----
(***************************************************************************)
(* protodantic: ProtoModel.model_dump_proto / model_validate_proto         *)
(* (src/protodantic/base.py) as a state machine.                           *)
(*                                                                         *)
(* A behaviour is one call: either model_dump_proto(value) followed by     *)
(* model_validate_proto of the bytes it produced (the shape of             *)
(* tests/encoding_test.py, test_auto_enc_person), or model_validate_proto  *)
(* of a given buffer.  The dump advances one proto_map item per step; the  *)
(* validate loop advances one tag/value pair per step, with an explicit    *)
(* call stack for the recursive decode of nested messages and a sub-loop   *)
(* position for map entries.                                               *)
(*                                                                         *)
(* Python values are tagged records [k |-> kind, v |-> payload]:           *)
(*   int    v is the integer (non-negative: _EncodeVarint is unsigned)     *)
(*   bool   v is TRUE/FALSE                                                *)
(*   float  v is the 8 bytes of the IEEE-754 double, most significant first*)
(*   str    v is the sequence of code points                               *)
(*   bytes  v is the sequence of bytes                                     *)
(*   enum   v is the IntEnum member's value                                *)
(*   none   (no payload)                                                   *)
(*   list   v is the sequence of elements                                  *)
(*   dict   v is the sequence of <<key, value>> in insertion order         *)
(*   model  cls is the class name, v maps field name to value              *)
(***************************************************************************)
EXTENDS Integers, Sequences, FiniteSets, TLC

(* ------------------------------ bounds -------------------------------- *)
\* Generated record types have up to MaxFields int fields.
MaxFields == 3
\* proto_index overrides of generated record types range over 1..MaxIndex.
MaxIndex == 3

(* ------------------------- wire format constants ---------------------- *)
WIRETYPE_VARINT == 0
WIRETYPE_FIXED64 == 1
WIRETYPE_LENGTH_DELIMITED == 2

(* ------------------------------ sequences ----------------------------- *)
Reverse(s) == [i \in 1..Len(s) |-> s[Len(s) + 1 - i]]

Take(s, n) == SubSeq(s, 1, n)

Max(a, b) == IF a > b THEN a ELSE b

Min(a, b) == IF a < b THEN a ELSE b

RECURSIVE Pow2(_)
Pow2(n) == IF n = 0 THEN 1 ELSE 2 * Pow2(n - 1)

(* ------------------------------ Python values ------------------------- *)
PNone == [k |-> "none"]

PInt(n) == [k |-> "int", v |-> n]

PBool(b) == [k |-> "bool", v |-> b]

PFloat(b) == [k |-> "float", v |-> b]

PStr(s) == [k |-> "str", v |-> s]

PBytes(s) == [k |-> "bytes", v |-> s]

PEnum(n) == [k |-> "enum", v |-> n]

PList(s) == [k |-> "list", v |-> s]

PDict(s) == [k |-> "dict", v |-> s]

PModel(c, f) == [k |-> "model", cls |-> c, v |-> f]

\* bool is a subclass of int, IntEnum members are ints.
IsIntLike(a) == a.k \in {"int", "bool", "enum"}

IntOf(a) == IF a.k = "bool" THEN (IF a.v THEN 1 ELSE 0) ELSE a.v

(* IEEE-754 double read from its 8 bytes, most significant first. *)
FloatExp(b) == (b[1] % 128) * 16 + (b[2] \div 16)

FloatMantZero(b) == b[2] % 16 = 0 /\ \A i \in 3..8 : b[i] = 0

FloatIsNaN(b) == FloatExp(b) = 2047 /\ ~FloatMantZero(b)

FloatIsZero(b) == FloatExp(b) = 0 /\ FloatMantZero(b)

FloatEq(a, b) ==
  /\ ~FloatIsNaN(a)
  /\ ~FloatIsNaN(b)
  /\ \/ a = b
     \/ FloatIsZero(a) /\ FloatIsZero(b)

\* The top 24 bits of the 52-bit mantissa, and whether the low 28 are zero.
FloatMantHi(b) == (b[2] % 16) * 1048576 + b[3] * 4096 + b[4] * 16 + (b[5] \div 16)

FloatMantLoZero(b) == b[5] % 16 = 0 /\ \A i \in 6..8 : b[i] = 0

\* A finite double with no fractional part.
FloatIsIntegral(b) ==
  LET e == FloatExp(b) - 1023 IN
  \/ FloatIsZero(b)
  \/ /\ FloatExp(b) # 2047
     /\ e >= 0
     /\ \/ e >= 52
        \/ e >= 24 /\ e < 52 /\
           LET lowbits == 52 - e       \* 1..28 low mantissa bits must be zero
               lo == (b[5] % 16) * 16777216 + b[6] * 65536 + b[7] * 256 + b[8]
           IN lo % Pow2(lowbits) = 0
        \/ e < 24 /\ FloatMantLoZero(b) /\ FloatMantHi(b) % Pow2(24 - e) = 0

\* An integral double small enough to be held exactly below 2^24.
FloatIsSmallInt(b) ==
  /\ FloatIsIntegral(b)
  /\ b[1] < 128
  /\ (FloatIsZero(b) \/ FloatExp(b) - 1023 < 24)

FloatSmallInt(b) ==
  IF FloatIsZero(b) THEN 0
  ELSE LET e == FloatExp(b) - 1023
       IN (16777216 + FloatMantHi(b)) \div Pow2(24 - e)

RECURSIVE PyEq(_, _), PyEqSeq(_, _), PyDictSub(_, _)
\* Python's ==.
PyEq(a, b) ==
  IF IsIntLike(a) /\ IsIntLike(b) THEN IntOf(a) = IntOf(b)
  ELSE IF a.k = "float" /\ b.k = "float" THEN FloatEq(a.v, b.v)
  ELSE IF a.k = "float" /\ IsIntLike(b)
    THEN FloatIsSmallInt(a.v) /\ FloatSmallInt(a.v) = IntOf(b)
  ELSE IF IsIntLike(a) /\ b.k = "float"
    THEN FloatIsSmallInt(b.v) /\ FloatSmallInt(b.v) = IntOf(a)
  ELSE IF a.k # b.k THEN FALSE
  ELSE IF a.k = "none" THEN TRUE
  ELSE IF a.k \in {"str", "bytes", "bigint"} THEN a.v = b.v
  ELSE IF a.k = "list" THEN PyEqSeq(a.v, b.v)
  ELSE IF a.k = "dict" THEN PyDictSub(a.v, b.v) /\ PyDictSub(b.v, a.v)
  ELSE IF a.k = "model"
    THEN /\ a.cls = b.cls
         /\ DOMAIN a.v = DOMAIN b.v
         /\ \A n \in DOMAIN a.v : PyEq(a.v[n], b.v[n])
  ELSE FALSE

PyEqSeq(s, t) ==
  /\ Len(s) = Len(t)
  /\ \A i \in 1..Len(s) : PyEq(s[i], t[i])

PyDictSub(s, t) ==
  \A i \in 1..Len(s) :
    \E j \in 1..Len(t) : PyEq(s[i][1], t[j][1]) /\ PyEq(s[i][2], t[j][2])

\* dict lookup and store; a store to an existing key keeps the key's place.
DictHas(d, key) == \E i \in 1..Len(d) : PyEq(d[i][1], key)

DictGet(d, key) == d[CHOOSE i \in 1..Len(d) : PyEq(d[i][1], key)][2]

DictSet(d, key, val) ==
  IF DictHas(d, key)
    THEN [i \in 1..Len(d) |-> IF PyEq(d[i][1], key) THEN <<d[i][1], val>> ELSE d[i]]
    ELSE Append(d, <<key, val>>)

(* ------------------------------- varints ------------------------------ *)
RECURSIVE EncodeVarint(_)
\* google.protobuf.internal.encoder._EncodeVarint: unsigned LEB128.
EncodeVarint(n) ==
  IF n < 128 THEN <<n>>
  ELSE <<(n % 128) + 128>> \o EncodeVarint(n \div 128)

RECURSIVE decode_varint_loop(_, _, _, _)
decode_varint_loop(data, pos, result, shift) ==
  IF pos >= Len(data)
    THEN [value |-> result, pos |-> pos, eof |-> TRUE]      \* read(1) is empty: break
    ELSE LET byte == data[pos + 1]
             r == result + (byte % 128) * Pow2(shift)
         IN IF byte < 128
              THEN [value |-> r, pos |-> pos + 1, eof |-> FALSE]
              ELSE decode_varint_loop(data, pos + 1, r, shift + 7)

\* ProtoModel._decode_varint on a stream over data at offset pos (0-based):
\* the value, the offset after it, and whether the loop left on end of input.
decode_varint(data, pos) == decode_varint_loop(data, pos, 0, 0)

\* A read that moves the offset by the count asked for, past the end of a
\* short buffer.
StreamReadUnclamped(data, pos, n) ==
  [bytes |-> SubSeq(data, pos + 1, Min(Len(data), pos + n)), pos |-> pos + n,
   short |-> (Len(data) - pos < n)]

\* BytesIO.read(n) at offset pos: at most n bytes, fewer at the end of input.
StreamRead(data, pos, n) ==
  LET end == Min(Len(data), pos + n)
  IN [bytes |-> SubSeq(data, pos + 1, end), pos |-> Max(pos, end),
      short |-> (Len(data) - pos < n)]

(* -------------------------------- UTF-8 ------------------------------- *)
RECURSIVE Utf8Encode(_)
\* str.encode('utf-8') of a sequence of code points (no surrogates).
Utf8Encode(s) ==
  IF s = <<>> THEN <<>>
  ELSE LET c == Head(s)
           b == IF c < 128 THEN <<c>>
                ELSE IF c < 2048 THEN <<192 + (c \div 64), 128 + (c % 64)>>
                ELSE IF c < 65536
                  THEN <<224 + (c \div 4096), 128 + ((c \div 64) % 64), 128 + (c % 64)>>
                ELSE <<240 + (c \div 262144), 128 + ((c \div 4096) % 64),
                       128 + ((c \div 64) % 64), 128 + (c % 64)>>
       IN b \o Utf8Encode(Tail(s))

IsCont(b) == b >= 128 /\ b <= 191

RECURSIVE Utf8DecodeFrom(_, _, _)
\* bytes.decode('utf-8'): [ok, v]; ok is FALSE where Python raises
\* UnicodeDecodeError.
Utf8DecodeFrom(b, i, acc) ==
  IF i > Len(b) THEN [ok |-> TRUE, v |-> acc]
  ELSE LET b0 == b[i]
           has(n) == i + n <= Len(b) /\ \A j \in 1..n : IsCont(b[i + j])
       IN IF b0 < 128 THEN Utf8DecodeFrom(b, i + 1, Append(acc, b0))
          ELSE IF b0 >= 194 /\ b0 <= 223 /\ has(1)
            THEN Utf8DecodeFrom(b, i + 2, Append(acc, (b0 - 192) * 64 + (b[i + 1] - 128)))
          ELSE IF /\ b0 >= 224 /\ b0 <= 239 /\ has(2)
                  /\ (b0 = 224 => b[i + 1] >= 160)
                  /\ (b0 = 237 => b[i + 1] <= 159)
            THEN Utf8DecodeFrom(b, i + 3,
                   Append(acc, (b0 - 224) * 4096 + (b[i + 1] - 128) * 64 + (b[i + 2] - 128)))
          ELSE IF /\ b0 >= 240 /\ b0 <= 244 /\ has(3)
                  /\ (b0 = 240 => b[i + 1] >= 144)
                  /\ (b0 = 244 => b[i + 1] <= 143)
            THEN Utf8DecodeFrom(b, i + 4,
                   Append(acc, (b0 - 240) * 262144 + (b[i + 1] - 128) * 4096
                               + (b[i + 2] - 128) * 64 + (b[i + 3] - 128)))
          ELSE [ok |-> FALSE, v |-> acc]

Utf8Decode(b) == Utf8DecodeFrom(b, 1, <<>>)

(* ----------------------------- annotations ---------------------------- *)
\* int, bool, float, str, bytes, an IntEnum with the given member values,
\* a ProtoModel subclass by name, list[T], dict[K, V], Optional[T].
AInt == [k |-> "int"]

ABool == [k |-> "bool"]

AFloat == [k |-> "float"]

AStr == [k |-> "str"]

ABytes == [k |-> "bytes"]

AEnum(ms) == [k |-> "enum", members |-> ms]

AModel(c) == [k |-> "model", cls |-> c]

AList(a) == [k |-> "list", inner |-> a]

ADict(a, b) == [k |-> "dict", key |-> a, val |-> b]

AOpt(a) == [k |-> "opt", inner |-> a]

\* "Handle Optional types": a Union with exactly one non-None member.
Unwrap(ann) == IF ann.k = "opt" THEN ann.inner ELSE ann

\* ProtoModel.get_wiretype_for_annotation.
get_wiretype_for_annotation(annotation) ==
  LET a == Unwrap(annotation) IN
  IF a.k = "list" THEN WIRETYPE_LENGTH_DELIMITED
  ELSE IF a.k = "dict" THEN WIRETYPE_LENGTH_DELIMITED
  ELSE IF a.k \in {"int", "bool", "enum"} THEN WIRETYPE_VARINT
  ELSE IF a.k = "float" THEN WIRETYPE_FIXED64
  ELSE WIRETYPE_LENGTH_DELIMITED        \* str, bytes, nested message

\* ProtoModel.build_key.
build_key(field_number, annotation) ==
  field_number * 8 + get_wiretype_for_annotation(annotation)

(* --------------------------- field declarations ----------------------- *)
\* json_schema_extra of a field: not a dict, a dict without "proto_index",
\* or a dict whose "proto_index" is idx.
NoExtra == [isdict |-> FALSE, has |-> FALSE, idx |-> 0]

ExtraNoIndex == [isdict |-> TRUE, has |-> FALSE, idx |-> 0]

ProtoIndex(n) == [isdict |-> TRUE, has |-> TRUE, idx |-> n]

\* A required field, and a field with a default.
Req(n, a) == [name |-> n, ann |-> a, required |-> TRUE, default |-> PNone, extra |-> NoExtra]

Dflt(n, a, d) == [name |-> n, ann |-> a, required |-> FALSE, default |-> d, extra |-> NoExtra]

WithExtra(f, e) == [f EXCEPT !.extra = e]

(* ----------------------------- proto_map ------------------------------ *)
\* proto_map is a dict keyed by field number: the sequence of
\* [num, idx] in insertion order, idx the field's declaration position.
MapHas(pm, n) == \E i \in 1..Len(pm) : pm[i].num = n

MapGet(pm, n) == pm[CHOOSE i \in 1..Len(pm) : pm[i].num = n].idx

MapSet(pm, n, idx) ==
  IF MapHas(pm, n)
    THEN [i \in 1..Len(pm) |-> IF pm[i].num = n THEN [num |-> n, idx |-> idx] ELSE pm[i]]
    ELSE Append(pm, [num |-> n, idx |-> idx])

\* One pass of the loop of create_proto_map over field default_index.
proto_map_step(pm, field, default_index) ==
  IF field.extra.isdict
    THEN IF field.extra.has THEN MapSet(pm, field.extra.idx, default_index) ELSE pm
    ELSE MapSet(pm, default_index, default_index)

RECURSIVE proto_map_loop(_, _, _)
proto_map_loop(fields, default_index, pm) ==
  IF default_index > Len(fields) THEN pm
  ELSE proto_map_loop(fields, default_index + 1,
                      proto_map_step(pm, fields[default_index], default_index))

\* ProtoModel.create_proto_map for a class with the given model_fields.
create_proto_map(fields) == proto_map_loop(fields, 1, <<>>)

(* ------------------------------ record types -------------------------- *)
\* A class is identified by [name, extras]; the classes named "Gen" are the
\* generated ones, whose fields f1, f2, ... are required ints carrying the
\* json_schema_extra given by extras.
Cls(n) == [name |-> n, extras |-> <<>>]

FieldNames == <<"f1", "f2", "f3", "f4", "f5">>

GenFields(extras) ==
  [i \in 1..Len(extras) |-> WithExtra(Req(FieldNames[i], AInt), extras[i])]

\* Sample payloads: "b", "c", "bé" and b'\x01\x02\x03'.
SB == PStr(<<98>>)

SC == PStr(<<99>>)

SBE == PStr(<<98, 233>>)

SEmpty == PStr(<<>>)

B123 == PBytes(<<1, 2, 3>>)

\* 1.0 and 0.5 as doubles.
F1 == PFloat(<<63, 240, 0, 0, 0, 0, 0, 0>>)

FHalf == PFloat(<<63, 224, 0, 0, 0, 0, 0, 0>>)

\* The IntEnum Level has members LOW = 1 and HIGH = 2.
Level == AEnum({1, 2})

\* Address, Contact and Person are the classes of tests/encoding_test.py;
\* Reading and Ledger add the field types Person does not use.
AddressFields == <<Req("street", AStr), Req("city", AStr), Req("zipcode", AStr)>>

ContactFields == <<Req("id", ABytes), Req("type", AStr), Req("value", AStr)>>

PersonFields ==
  <<Req("name", AStr), Req("age", AInt), Req("email", AStr),
    Dflt("phone", AOpt(AStr), PNone), Req("address", AModel(Cls("Address"))),
    Dflt("hobbies", AList(AStr), PList(<<>>)), Req("is_active", ABool),
    Dflt("salary", AOpt(AFloat), PNone),
    Dflt("contacts", AList(AModel(Cls("Contact"))), PList(<<>>))>>

ReadingFields ==
  <<Req("value", AFloat), Req("ok", ABool), Dflt("level", Level, PEnum(1)),
    Dflt("samples", AList(AInt), PList(<<>>)), Req("raw", AOpt(ABytes))>>

LedgerFields ==
  <<Req("entries", ADict(AStr, AInt)),
    Dflt("owners", ADict(AInt, AModel(Cls("Address"))), PDict(<<>>)),
    Dflt("notes", AOpt(AList(AStr)), PNone),
    Dflt("count", AInt, PInt(0)), Dflt("tags", AList(AStr), PList(<<>>))>>

\* cls.model_fields.
ClassFields(c) ==
  IF c.name = "Gen" THEN GenFields(c.extras)
  ELSE IF c.name = "Address" THEN AddressFields
  ELSE IF c.name = "Contact" THEN ContactFields
  ELSE IF c.name = "Person" THEN PersonFields
  ELSE IF c.name = "Reading" THEN ReadingFields
  ELSE LedgerFields

FieldIndex(fields, n) == CHOOSE i \in 1..Len(fields) : fields[i].name = n

(* -------------------------------- encode ------------------------------ *)
\* An encoder's outcome: the exception raised ("" for none) and the bytes.
Wrote(b) == [err |-> "", out |-> b]

Raised(e) == [err |-> e, out |-> <<>>]

\* The bytes of a sequence of emitted elements [key, val, sub].
RECURSIVE ElemBytes(_)
ElemBytes(elems) ==
  IF elems = <<>> THEN <<>>
  ELSE EncodeVarint(Head(elems).key) \o Head(elems).val \o ElemBytes(Tail(elems))

Elem(key, val, sub) == [key |-> key, val |-> val, sub |-> sub]

\* A dump loop that skips None only, and writes defaults.
SkipsNoneOnly(field, value) == value.k = "none"

\* not field.is_required() and value == field.default, after value is None.
SkipsField(field, value) ==
  \/ value.k = "none"
  \/ ~field.required /\ PyEq(value, field.default)

\* The outcome of writing elements: the exception raised, the elements.
NoElems == [err |-> "", elems |-> <<>>]

ElemsRaised(e) == [err |-> e, elems |-> <<>>]

\* One element with the given key, from the outcome w of writing its value.
AsElem(key, w) ==
  IF w.err # "" THEN ElemsRaised(w.err)
  ELSE [err |-> "", elems |-> <<Elem(key, w.out, <<>>)>>]

\* a's elements, then rest's; the first exception wins.
JoinElems(a, rest) ==
  IF a.err # "" THEN ElemsRaised(a.err)
  ELSE IF rest.err # "" THEN rest
  ELSE [err |-> "", elems |-> a.elems \o rest.elems]

\* _EncodeVarint(len(b)) then b, of the outcome w of an encoder.
LengthPrefixed(w) ==
  IF w.err # "" THEN Raised(w.err)
  ELSE Wrote(EncodeVarint(Len(w.out)) \o w.out)

\* One map entry (lines 108-116), from the outcomes wk and wv of writing its
\* key and value into item_output.
EntryElem(key, key_key, value_key, wk, wv) ==
  IF wk.err # "" THEN ElemsRaised(wk.err)
  ELSE IF wv.err # "" THEN ElemsRaised(wv.err)
  ELSE LET sub == <<Elem(key_key, wk.out, <<>>), Elem(value_key, wv.out, <<>>)>>
           item_bytes == ElemBytes(sub)
       IN [err |-> "",
           elems |-> <<Elem(key, EncodeVarint(Len(item_bytes)) \o item_bytes, sub)>>]

RECURSIVE encode_value(_, _), encode_list(_, _, _, _), endode_dict(_, _, _, _),
          encode_field(_, _, _), dump_items(_, _, _), model_dump_proto(_)

\* ProtoModel._encode_value: what it writes to output.
encode_value(value, annotation) ==
  LET a == Unwrap(annotation) IN
  IF a.k = "list" THEN Raised("RuntimeError")
  ELSE IF a.k = "dict" THEN Raised("RuntimeError")
  ELSE IF a.k = "int" THEN Wrote(EncodeVarint(IntOf(value)))
  ELSE IF a.k = "enum" THEN Wrote(EncodeVarint(value.v))
  ELSE IF a.k = "bool" THEN Wrote(EncodeVarint(IF IntOf(value) # 0 THEN 1 ELSE 0))
  ELSE IF a.k = "float" THEN Wrote(Reverse(value.v))
  ELSE IF a.k = "str" THEN LengthPrefixed(Wrote(Utf8Encode(value.v)))
  ELSE IF a.k = "bytes" THEN LengthPrefixed(Wrote(value.v))
  ELSE LengthPrefixed(model_dump_proto(value))

\* ProtoModel.encode_list from item i on.
encode_list(key, items, inner_type, i) ==
  IF i > Len(items) THEN NoElems
  ELSE JoinElems(AsElem(key, encode_value(items[i], inner_type)),
                 encode_list(key, items, inner_type, i + 1))

\* ProtoModel.endode_dict from pair i on; each element's sub holds the key
\* and value sub-fields of its entry.
endode_dict(key, pairs, annotation, i) ==
  IF i > Len(pairs) THEN NoElems
  ELSE JoinElems(EntryElem(key,
                           1 * 8 + get_wiretype_for_annotation(annotation.key),
                           2 * 8 + get_wiretype_for_annotation(annotation.val),
                           encode_value(pairs[i][1], annotation.key),
                           encode_value(pairs[i][2], annotation.val)),
                 endode_dict(key, pairs, annotation, i + 1))

\* ProtoModel.encode_field: the elements it writes.
encode_field(field_number, value, annotation) ==
  IF annotation.k = "list"
    THEN encode_list(build_key(field_number, annotation), value.v, annotation.inner, 1)
  ELSE IF annotation.k = "dict"
    THEN endode_dict(build_key(field_number, annotation), value.v, annotation, 1)
  ELSE AsElem(build_key(field_number, annotation), encode_value(value, annotation))

Skipped == [skip |-> TRUE, err |-> "", elems |-> <<>>]

NotSkipped(w) == [skip |-> FALSE, err |-> w.err, elems |-> w.elems]

\* One pass of the loop of model_dump_proto, over the proto_map item for
\* field: whether the field is skipped, the exception raised, the elements
\* written.
dump_field(field_number, field, value) ==
  IF SkipsField(field, value) THEN Skipped
  ELSE NotSkipped(encode_field(field_number, value, field.ann))

dump_item(self, item) ==
  dump_field(item.num, ClassFields(self.cls)[item.idx],
             self.v[ClassFields(self.cls)[item.idx].name])

\* d's bytes, then rest's; the first exception wins.
JoinOut(d, rest) ==
  IF d.err # "" THEN Raised(d.err)
  ELSE IF rest.err # "" THEN rest
  ELSE Wrote(ElemBytes(d.elems) \o rest.out)

dump_items(self, pm, i) ==
  IF i > Len(pm) THEN Wrote(<<>>)
  ELSE JoinOut(dump_item(self, pm[i]), dump_items(self, pm, i + 1))

\* ProtoModel.model_dump_proto as a function (the nested calls).
model_dump_proto(self) ==
  dump_items(self, create_proto_map(ClassFields(self.cls)), 1)

(* ------------------- pydantic: the constructor call ------------------ *)
\* The validation the constructor call at the end of model_validate_proto
\* runs on the accumulated values (pydantic's lax mode).  Text is parsed as
\* a number only in the plain forms: optional surrounding whitespace, an
\* optional sign, decimal digits.
Valid(x) == [ok |-> TRUE, v |-> x]

Invalid == [ok |-> FALSE, v |-> PNone]

IsSpace(c) == c \in {9, 10, 11, 12, 13, 32}

IsDigit(c) == c >= 48 /\ c <= 57

RECURSIVE Strip(_)
Strip(s) ==
  IF s # <<>> /\ IsSpace(Head(s)) THEN Strip(Tail(s))
  ELSE IF s # <<>> /\ IsSpace(s[Len(s)]) THEN Strip(Take(s, Len(s) - 1))
  ELSE s

RECURSIVE DigitsValue(_, _)
DigitsValue(s, acc) ==
  IF s = <<>> THEN acc ELSE DigitsValue(Tail(s), acc * 10 + (Head(s) - 48))

\* int(text): [ok, v].
TextAsInt(text) ==
  LET t == Strip(text)
      neg == t # <<>> /\ Head(t) = 45
      d == IF t # <<>> /\ Head(t) \in {43, 45} THEN Tail(t) ELSE t
  IN IF d # <<>> /\ \A i \in 1..Len(d) : IsDigit(d[i])
       THEN [ok |-> TRUE, v |-> IF neg THEN 0 - DigitsValue(d, 0) ELSE DigitsValue(d, 0)]
       ELSE [ok |-> FALSE, v |-> 0]

Lower(s) == [i \in 1..Len(s) |-> IF s[i] >= 65 /\ s[i] <= 90 THEN s[i] + 32 ELSE s[i]]

\* "1", "true", "t", "y", "yes", "on" and "0", "false", "f", "n", "no", "off".
TrueWords ==
  {<<49>>, <<116, 114, 117, 101>>, <<116>>, <<121>>, <<121, 101, 115>>, <<111, 110>>}

FalseWords ==
  {<<48>>, <<102, 97, 108, 115, 101>>, <<102>>, <<110>>, <<110, 111>>, <<111, 102, 102>>}

RECURSIVE Log2(_)
Log2(n) == IF n < 2 THEN 0 ELSE 1 + Log2(n \div 2)

\* float(n) for 0 <= n < 2^31, as the 8 bytes of the double.
IntToFloat(n) ==
  IF n = 0 THEN <<0, 0, 0, 0, 0, 0, 0, 0>>
  ELSE LET e == Log2(n)
           frac == n - Pow2(e)
           hi == IF e <= 24 THEN frac * Pow2(24 - e) ELSE frac \div Pow2(e - 24)
           lo == IF e <= 24 THEN 0 ELSE (frac % Pow2(e - 24)) * Pow2(52 - e)
           ex == 1023 + e
       IN <<ex \div 16, (ex % 16) * 16 + (hi \div 1048576), (hi \div 4096) % 256,
            (hi \div 16) % 256, (hi % 16) * 16 + (lo \div 16777216),
            (lo \div 65536) % 256, (lo \div 256) % 256, lo % 256>>

\* The text of a str or bytes value, for the numeric parsers.
TextOf(x) == x.v

RECURSIVE Validate(_, _), ValidateItems(_, _, _), ValidatePairs(_, _, _),
          InitFields(_, _, _, _)

\* The call of cls on field_values: [ok, v]; ok is FALSE where pydantic raises
\* ValidationError (a missing required field, a value not of the field's type).
ModelInit(cls, field_values) ==
  InitFields(cls, field_values, 1, <<>>)

InitFields(cls, field_values, i, acc) ==
  LET fields == ClassFields(cls) IN
  IF i > Len(fields)
    THEN Valid(PModel(cls, [n \in {fields[j].name : j \in 1..Len(fields)} |->
                               acc[FieldIndex(fields, n)]]))
  ELSE LET f == fields[i] IN
       IF f.name \in DOMAIN field_values
         THEN LET r == Validate(f.ann, field_values[f.name])
              IN IF r.ok THEN InitFields(cls, field_values, i + 1, Append(acc, r.v))
                 ELSE Invalid
       ELSE IF ~f.required
         THEN InitFields(cls, field_values, i + 1, Append(acc, f.default))
       ELSE Invalid

Validate(ann, x) ==
  IF ann.k = "opt" THEN (IF x.k = "none" THEN Valid(x) ELSE Validate(ann.inner, x))
  ELSE IF ann.k = "int" THEN
    IF x.k = "int" THEN Valid(x)
    ELSE IF x.k \in {"bool", "enum"} THEN Valid(PInt(IntOf(x)))
    ELSE IF x.k = "float" THEN
      IF FloatIsSmallInt(x.v) THEN Valid(PInt(FloatSmallInt(x.v)))
      ELSE IF FloatIsIntegral(x.v) THEN Valid([k |-> "bigint", v |-> x.v])
      ELSE Invalid
    ELSE IF x.k \in {"str", "bytes"} THEN
      LET t == TextAsInt(TextOf(x)) IN IF t.ok THEN Valid(PInt(t.v)) ELSE Invalid
    ELSE Invalid
  ELSE IF ann.k = "bool" THEN
    IF x.k = "bool" THEN Valid(x)
    ELSE IF x.k \in {"int", "enum"} THEN
      (IF x.v \in {0, 1} THEN Valid(PBool(x.v = 1)) ELSE Invalid)
    ELSE IF x.k = "float" THEN
      (IF FloatIsSmallInt(x.v) /\ FloatSmallInt(x.v) \in {0, 1}
         THEN Valid(PBool(FloatSmallInt(x.v) = 1)) ELSE Invalid)
    ELSE IF x.k \in {"str", "bytes"} THEN
      (IF Lower(TextOf(x)) \in TrueWords THEN Valid(PBool(TRUE))
       ELSE IF Lower(TextOf(x)) \in FalseWords THEN Valid(PBool(FALSE))
       ELSE Invalid)
    ELSE Invalid
  ELSE IF ann.k = "float" THEN
    IF x.k = "float" THEN Valid(x)
    ELSE IF IsIntLike(x) THEN Valid(PFloat(IntToFloat(IntOf(x))))
    ELSE IF x.k \in {"str", "bytes"} THEN
      LET t == TextAsInt(TextOf(x)) IN IF t.ok /\ t.v >= 0 THEN Valid(PFloat(IntToFloat(t.v)))
                                       ELSE Invalid
    ELSE Invalid
  ELSE IF ann.k = "str" THEN
    IF x.k = "str" THEN Valid(x)
    ELSE IF x.k = "bytes" THEN
      LET d == Utf8Decode(x.v) IN IF d.ok THEN Valid(PStr(d.v)) ELSE Invalid
    ELSE Invalid
  ELSE IF ann.k = "bytes" THEN
    IF x.k = "bytes" THEN Valid(x)
    ELSE IF x.k = "str" THEN Valid(PBytes(Utf8Encode(x.v)))
    ELSE Invalid
  ELSE IF ann.k = "enum" THEN
    IF IsIntLike(x) THEN (IF IntOf(x) \in ann.members THEN Valid(PEnum(IntOf(x))) ELSE Invalid)
    ELSE IF x.k = "float" THEN
      (IF FloatIsSmallInt(x.v) /\ FloatSmallInt(x.v) \in ann.members
         THEN Valid(PEnum(FloatSmallInt(x.v))) ELSE Invalid)
    ELSE IF x.k \in {"str", "bytes"} THEN
      LET t == TextAsInt(TextOf(x)) IN IF t.ok /\ t.v \in ann.members THEN Valid(PEnum(t.v))
                                       ELSE Invalid
    ELSE Invalid
  ELSE IF ann.k = "model" THEN
    (IF x.k = "model" /\ x.cls = ann.cls THEN Valid(x) ELSE Invalid)
  ELSE IF ann.k = "list" THEN
    (IF x.k = "list" THEN ValidateItems(ann.inner, x.v, <<>>) ELSE Invalid)
  ELSE
    (IF x.k = "dict" THEN ValidatePairs(ann, x.v, <<>>) ELSE Invalid)

ValidateItems(inner, items, acc) ==
  IF items = <<>> THEN Valid(PList(acc))
  ELSE LET r == Validate(inner, Head(items))
       IN IF r.ok THEN ValidateItems(inner, Tail(items), Append(acc, r.v)) ELSE Invalid

ValidatePairs(ann, pairs, acc) ==
  IF pairs = <<>> THEN Valid(PDict(acc))
  ELSE LET rk == Validate(ann.key, Head(pairs)[1])
           rv == Validate(ann.val, Head(pairs)[2])
       IN IF rk.ok /\ rv.ok THEN ValidatePairs(ann, Tail(pairs), DictSet(acc, rk.v, rv.v))
          ELSE Invalid

(* -------------------------------- decode ------------------------------ *)
\* One activation of model_validate_proto:
\*   cls, data, pos, field_values   the class, the buffer, stream.tell()
\*   tag, tagend                    the last tag read (-1: none) and the
\*                                  offset just after it
\*   field_name                     the field the last tag named
\*   sub, data_bytes, epos,         the map-entry sub-loop: whether it is
\*   entry_key, entry_value         running, entry_stream and its offset
\*   wait                           "field" / "entry" while a nested
\*                                  model_validate_proto runs for the
\*                                  field's value / the entry's value
\*   log                            history: the [name, wt, value] of every
\*                                  tag/value pair accumulated so far
NewFrame(cls, data) ==
  [cls |-> cls, data |-> data, pos |-> 0, field_values |-> <<>>,
   tag |-> -1, tagend |-> 0, field_name |-> "",
   sub |-> FALSE, data_bytes |-> <<>>, epos |-> 0,
   entry_key |-> PNone, entry_value |-> PNone,
   wait |-> "", log |-> <<>>]

PTuple(a, b) == [k |-> "tuple", v |-> <<a, b>>]

\* A tag split one bit too high.
field_number_shifted(tag) == tag \div 16

\* field_number = tag >> 3 and wire_type = tag & 0x07.
field_number_of(tag) == tag \div 8

wire_type_of(tag) == tag % 8

\* What one step of a loop comes to:
\*   "value"  a value was decoded         "raise"  an exception (err)
\*   "call"   a nested model_validate_proto(data) of cls is to run
\*   "entry"  the map-entry sub-loop is to run over data
\*   "none"   (sub-loop only) nothing was read after the tag
\* with the frame as the step leaves it and whether a read ended short.
Step(kind, frame, short) ==
  [kind |-> kind, frame |-> frame, short |-> short, err |-> "",
   value |-> PNone, cls |-> Cls(""), data |-> <<>>]

StepValue(frame, short, value) == [Step("value", frame, short) EXCEPT !.value = value]

StepRaise(frame, short, err) == [Step("raise", frame, short) EXCEPT !.err = err]

StepCall(frame, short, cls, data) ==
  [Step("call", frame, short) EXCEPT !.cls = cls, !.data = data]

StepEntry(frame, short, data) == [Step("entry", frame, short) EXCEPT !.data = data]

\* The body of the while loop of model_validate_proto up to the value
\* (lines 185-276), for the activation f.
read_field(f) ==
  LET t == decode_varint(f.data, f.pos)
      field_number == field_number_of(t.value)
      wire_type == wire_type_of(t.value)
      proto_map == create_proto_map(ClassFields(f.cls))
      f1 == [f EXCEPT !.pos = t.pos, !.tag = t.value, !.tagend = t.pos]
  IN
  IF ~MapHas(proto_map, field_number) THEN StepRaise(f1, t.eof, "UnknownField")
  ELSE
  LET field == ClassFields(f.cls)[MapGet(proto_map, field_number)]
      annotation == Unwrap(field.ann)
      f2 == [f1 EXCEPT !.field_name = field.name]
  IN
  IF wire_type = WIRETYPE_VARINT THEN
    LET v == decode_varint(f.data, t.pos)
        f3 == [f2 EXCEPT !.pos = v.pos]
    IN StepValue(f3, t.eof \/ v.eof,
                 IF annotation.k = "bool" THEN PBool(v.value # 0) ELSE PInt(v.value))
  ELSE IF wire_type = WIRETYPE_FIXED64 THEN
    LET r == StreamRead(f.data, t.pos, 8)
        f3 == [f2 EXCEPT !.pos = r.pos]
    IN IF r.short THEN StepRaise(f3, TRUE, "struct.error")
       ELSE StepValue(f3, t.eof, PFloat(Reverse(r.bytes)))
  ELSE IF wire_type = WIRETYPE_LENGTH_DELIMITED THEN
    LET length == decode_varint(f.data, t.pos)
        r == StreamRead(f.data, length.pos, length.value)
        data_bytes == r.bytes
        f3 == [f2 EXCEPT !.pos = r.pos]
        short == t.eof \/ length.eof \/ r.short
    IN
    IF annotation.k = "str" THEN
      LET d == Utf8Decode(data_bytes)
      IN IF d.ok THEN StepValue(f3, short, PStr(d.v))
         ELSE StepRaise(f3, short, "UnicodeDecodeError")
    ELSE IF annotation.k = "bytes" THEN StepValue(f3, short, PBytes(data_bytes))
    ELSE IF annotation.k = "list" THEN
      IF annotation.inner.k = "model"
        THEN StepCall(f3, short, annotation.inner.cls, data_bytes)
        ELSE StepValue(f3, short, PBytes(data_bytes))
    ELSE IF annotation.k = "dict" THEN StepEntry(f3, short, data_bytes)
    ELSE IF annotation.k = "model" THEN StepCall(f3, short, annotation.cls, data_bytes)
    ELSE StepValue(f3, short, PBytes(data_bytes))
  ELSE StepRaise(f2, t.eof, "UnsupportedWireType")

\* One pass of the map-entry sub-loop (lines 237-268), for the activation f.
entry_field(f) ==
  LET db == f.data_bytes
      ann == Unwrap(ClassFields(f.cls)[FieldIndex(ClassFields(f.cls), f.field_name)].ann)
      key_type == ann.key
      value_type == ann.val
      t == decode_varint(db, f.epos)
      entry_field_number == field_number_of(t.value)
      entry_wire_type == wire_type_of(t.value)
      f1 == [f EXCEPT !.epos = t.pos]
  IN
  IF entry_field_number = 1 THEN
    IF entry_wire_type = WIRETYPE_VARINT THEN
      LET v == decode_varint(db, t.pos)
      IN Step("none", [f1 EXCEPT !.epos = v.pos, !.entry_key = PInt(v.value)],
              t.eof \/ v.eof)
    ELSE IF entry_wire_type = WIRETYPE_LENGTH_DELIMITED THEN
      LET key_length == decode_varint(db, t.pos)
          r == StreamRead(db, key_length.pos, key_length.value)
          f2 == [f1 EXCEPT !.epos = r.pos]
          short == t.eof \/ key_length.eof \/ r.short
      IN IF key_type.k = "str"
           THEN LET d == Utf8Decode(r.bytes)
                IN IF d.ok THEN Step("none", [f2 EXCEPT !.entry_key = PStr(d.v)], short)
                   ELSE StepRaise(f2, short, "UnicodeDecodeError")
           ELSE Step("none", [f2 EXCEPT !.entry_key = PBytes(r.bytes)], short)
    ELSE Step("none", f1, t.eof)
  ELSE IF entry_field_number = 2 THEN
    IF entry_wire_type = WIRETYPE_VARINT THEN
      LET v == decode_varint(db, t.pos)
          x == IF value_type.k = "bool" THEN PBool(v.value # 0) ELSE PInt(v.value)
      IN Step("none", [f1 EXCEPT !.epos = v.pos, !.entry_value = x], t.eof \/ v.eof)
    ELSE IF entry_wire_type = WIRETYPE_FIXED64 THEN
      LET r == StreamRead(db, t.pos, 8)
          f2 == [f1 EXCEPT !.epos = r.pos]
      IN IF r.short THEN StepRaise(f2, TRUE, "struct.error")
         ELSE Step("none", [f2 EXCEPT !.entry_value = PFloat(Reverse(r.bytes))], t.eof)
    ELSE IF entry_wire_type = WIRETYPE_LENGTH_DELIMITED THEN
      LET value_length == decode_varint(db, t.pos)
          r == StreamRead(db, value_length.pos, value_length.value)
          f2 == [f1 EXCEPT !.epos = r.pos]
          short == t.eof \/ value_length.eof \/ r.short
      IN IF value_type.k = "str"
           THEN LET d == Utf8Decode(r.bytes)
                IN IF d.ok THEN Step("none", [f2 EXCEPT !.entry_value = PStr(d.v)], short)
                   ELSE StepRaise(f2, short, "UnicodeDecodeError")
         ELSE IF value_type.k = "bytes"
           THEN Step("none", [f2 EXCEPT !.entry_value = PBytes(r.bytes)], short)
         ELSE IF value_type.k = "model" THEN StepCall(f2, short, value_type.cls, r.bytes)
         ELSE Step("none", [f2 EXCEPT !.entry_value = PBytes(r.bytes)], short)
    ELSE Step("none", f1, t.eof)
  ELSE Step("none", f1, t.eof)

\* field_values[name] = value.
SetValue(field_values, name, value) ==
  [n \in DOMAIN field_values \cup {name} |->
     IF n = name THEN value ELSE field_values[n]]

\* An accumulation that keeps the last occurrence of a list field only.
accumulate_last(field_values, field_name, origin, value) ==
  IF origin = "list" THEN
    [err |-> "", field_values |-> SetValue(field_values, field_name, PList(<<value>>))]
  ELSE IF origin = "dict" THEN
    LET old == IF field_name \in DOMAIN field_values
                 THEN field_values[field_name].v ELSE <<>>
    IN IF value.k # "tuple" THEN [err |-> "TypeError", field_values |-> field_values]
       ELSE [err |-> "", field_values |->
               SetValue(field_values, field_name,
                        PDict(DictSet(old, value.v[1], value.v[2])))]
  ELSE [err |-> "", field_values |-> SetValue(field_values, field_name, value)]

\* "Handle repeated fields" (lines 278-289): [err, field_values].
accumulate(field_values, field_name, origin, value) ==
  IF origin = "list" THEN
    LET old == IF field_name \in DOMAIN field_values
                 THEN field_values[field_name].v ELSE <<>>
    IN [err |-> "", field_values |-> SetValue(field_values, field_name,
                                              PList(Append(old, value)))]
  ELSE IF origin = "dict" THEN
    LET old == IF field_name \in DOMAIN field_values
                 THEN field_values[field_name].v ELSE <<>>
    IN IF value.k # "tuple" THEN [err |-> "TypeError", field_values |-> field_values]
       ELSE [err |-> "", field_values |->
               SetValue(field_values, field_name,
                        PDict(DictSet(old, value.v[1], value.v[2])))]
  ELSE [err |-> "", field_values |-> SetValue(field_values, field_name, value)]

\* The origin of the (unwrapped) annotation of the frame's current field.
OriginOf(f) ==
  Unwrap(ClassFields(f.cls)[FieldIndex(ClassFields(f.cls), f.field_name)].ann).k

\* The frame after its current field's value has been accumulated: [err, frame].
Accumulated(f, value) ==
  LET a == accumulate(f.field_values, f.field_name, OriginOf(f), value)
  IN [err |-> a.err,
      frame |-> [f EXCEPT !.field_values = a.field_values,
                          !.log = Append(f.log, [name |-> f.field_name,
                                                 wt |-> wire_type_of(f.tag),
                                                 value |-> value])]]

(* ------------------------------- inputs ------------------------------- *)
Address1 == PModel(Cls("Address"), [street |-> SB, city |-> SEmpty, zipcode |-> SBE])

Contact1 == PModel(Cls("Contact"), [id |-> B123, type |-> SB, value |-> SC])

AddressValues ==
  {PModel(Cls("Address"), [street |-> SB, city |-> c, zipcode |-> SBE]) : c \in {SEmpty, SC}}

ContactValues ==
  {PModel(Cls("Contact"), [id |-> i, type |-> SB, value |-> SC]) : i \in {B123, PBytes(<<>>)}}

PersonValues ==
  {PModel(Cls("Person"),
          [name |-> SB, age |-> PInt(a), email |-> SEmpty, phone |-> p,
           address |-> Address1, hobbies |-> PList(h), is_active |-> PBool(b),
           salary |-> sal, contacts |-> PList(c)]) :
     a \in {0, 300}, p \in {PNone, SC}, h \in {<<>>, <<SB, SBE>>}, b \in BOOLEAN,
     sal \in {PNone, F1}, c \in {<<>>, <<Contact1>>}}

ReadingValues ==
  {PModel(Cls("Reading"),
          [value |-> f, ok |-> PBool(b), level |-> PEnum(l), samples |-> PList(sm),
           raw |-> r]) :
     f \in {F1, FHalf}, b \in BOOLEAN, l \in {1, 2},
     sm \in {<<>>, <<PInt(5)>>, <<PInt(1), PInt(10)>>}, r \in {PNone, B123}}

LedgerValues ==
  {PModel(Cls("Ledger"), [entries |-> PDict(e), owners |-> PDict(o), notes |-> n,
                          count |-> PInt(c), tags |-> PList(<<>>)]) :
     e \in {<<>>, <<<<SB, PInt(5)>>>>, <<<<SB, PInt(1)>>, <<SC, PInt(300)>>>>},
     o \in {<<>>, <<<<PInt(7), Address1>>>>}, n \in {PNone, PList(<<SB>>)},
     c \in {0, 5}}

GenExtras == {NoExtra, ExtraNoIndex} \cup {ProtoIndex(n) : n \in 1..MaxIndex}

GenClasses ==
  {[name |-> "Gen", extras |-> e] : e \in UNION {[1..n -> GenExtras] : n \in 1..MaxFields}}

GenNames(c) == {FieldNames[i] : i \in 1..Len(c.extras)}

GenValues(c) == {PModel(c, g) : g \in [GenNames(c) -> {PInt(0), PInt(7)}]}

\* The bytes model_dump_proto gives for a value it can encode.
Dumped(v) == model_dump_proto(v).out

\* Buffers handed to model_validate_proto directly: every prefix of the
\* encodings of a few values, the encodings of two of them one after the
\* other, and single tags of every wire type.
Person1 ==
  PModel(Cls("Person"),
         [name |-> SB, age |-> PInt(300), email |-> SEmpty, phone |-> SC,
          address |-> Address1, hobbies |-> PList(<<SB, SBE>>),
          is_active |-> PBool(TRUE), salary |-> F1, contacts |-> PList(<<Contact1>>)])

Reading1 ==
  PModel(Cls("Reading"), [value |-> F1, ok |-> PBool(TRUE), level |-> PEnum(2),
                         samples |-> PList(<<>>), raw |-> B123])

Ledger1 ==
  PModel(Cls("Ledger"), [entries |-> PDict(<<<<SB, PInt(1)>>, <<SC, PInt(300)>>>>),
                        owners |-> PDict(<<<<PInt(7), Address1>>>>), notes |-> PNone,
                        count |-> PInt(5), tags |-> PList(<<SB, SC>>)])

Ledger2 ==
  PModel(Cls("Ledger"), [entries |-> PDict(<<<<SB, PInt(5)>>>>), owners |-> PDict(<<>>),
                        notes |-> PNone, count |-> PInt(0), tags |-> PList(<<>>)])

Gen1 ==
  PModel([name |-> "Gen", extras |-> <<NoExtra, NoExtra>>], [f1 |-> PInt(300), f2 |-> PInt(1)])

Samples == <<Address1, Contact1, Person1, Reading1, Ledger1, Ledger2, Gen1>>

Prefixes(b) == {Take(b, n) : n \in 0..Len(b)}

\* A tag of every wire type for fields 1 and 2, alone or before two bytes.
RawBuffers == {<<n * 8 + w>> \o b : n \in 1..2, w \in 0..7, b \in {<<>>, <<1, 98>>}}

Buffers ==
  (UNION {Prefixes(Dumped(Samples[i])) : i \in 1..Len(Samples)})
  \cup {Dumped(Samples[i]) \o Dumped(Samples[j]) : i, j \in 1..Len(Samples)}
  \cup RawBuffers

ValidateClasses ==
  {Cls("Address"), Cls("Contact"), Cls("Person"), Cls("Reading"), Cls("Ledger"),
   [name |-> "Gen", extras |-> <<NoExtra, NoExtra>>],
   [name |-> "Gen", extras |-> <<ProtoIndex(2), NoExtra>>]}

(* ----------------------------- state machine -------------------------- *)
VARIABLES
  mode,      \* "roundtrip": dump self, then validate the bytes; "validate"
  self,      \* the record model_dump_proto is called on (PNone: none)
  status,    \* "dumping", "running", "returned", "error"
  err,       \* the exception that ended the call ("" for none)
  di,        \* the dump loop's place in proto_map.items()
  output,    \* the bytes model_dump_proto has written
  emitted,   \* per proto_map item the dump loop has passed:
             \*   [num, idx, skip, elems]
  stack,     \* the activations of model_validate_proto, outermost first
  result,    \* the record model_validate_proto returned (PNone: none)
  short      \* history: whether a read of the call ran into the end of
             \* its input

vars == <<mode, self, status, err, di, output, emitted, stack, result, short>>

InitDump(v) ==
  /\ mode = "roundtrip"
  /\ self = v
  /\ status = "dumping"
  /\ err = ""
  /\ di = 1
  /\ output = <<>>
  /\ emitted = <<>>
  /\ stack = <<>>
  /\ result = PNone
  /\ short = FALSE

InitValidate(cls, data) ==
  /\ mode = "validate"
  /\ self = PNone
  /\ status = "running"
  /\ err = ""
  /\ di = 1
  /\ output = <<>>
  /\ emitted = <<>>
  /\ stack = <<NewFrame(cls, data)>>
  /\ result = PNone
  /\ short = FALSE

Init ==
  \/ \E v \in AddressValues \cup ContactValues : InitDump(v)
  \/ \E v \in PersonValues : InitDump(v)
  \/ \E v \in ReadingValues : InitDump(v)
  \/ \E v \in LedgerValues : InitDump(v)
  \/ \E c \in GenClasses : \E v \in GenValues(c) : InitDump(v)
  \/ \E c \in ValidateClasses : \E b \in Buffers : InitValidate(c, b)

Top == stack[Len(stack)]

SetTop(f) == [stack EXCEPT ![Len(stack)] = f]

Abort(e) ==
  /\ status' = "error"
  /\ err' = e
  /\ result' = PNone

\* The dump loop moves past item with the outcome d of dump_item.
DumpPass(item, d) ==
  IF d.err # ""
    THEN /\ Abort(d.err)
         /\ UNCHANGED <<di, output, emitted>>
    ELSE /\ output' = output \o ElemBytes(d.elems)
         /\ emitted' = Append(emitted, [num |-> item.num, idx |-> item.idx,
                                        skip |-> d.skip, elems |-> d.elems])
         /\ di' = di + 1
         /\ UNCHANGED <<status, err, result>>

\* One pass of the for loop of model_dump_proto (lines 146-157).
DumpField ==
  /\ status = "dumping"
  /\ di <= Len(create_proto_map(ClassFields(self.cls)))
  /\ \E item \in {create_proto_map(ClassFields(self.cls))[di]} :
       \E d \in {dump_item(self, item)} : DumpPass(item, d)
  /\ UNCHANGED <<mode, self, stack, short>>

\* return output.getvalue() (line 159), and the call of model_validate_proto
\* on it (lines 180-181).
DumpReturn ==
  /\ status = "dumping"
  /\ di > Len(create_proto_map(ClassFields(self.cls)))
  /\ status' = "running"
  /\ stack' = <<NewFrame(self.cls, output)>>
  /\ UNCHANGED <<mode, self, err, di, output, emitted, result, short>>

\* while stream.tell() < len(data) (line 183), in the top activation.
LoopRuns == status = "running" /\ ~Top.sub /\ Top.pos < Len(Top.data)

LoopEnds == status = "running" /\ ~Top.sub /\ Top.pos >= Len(Top.data)

\* while entry_stream.tell() < len(data_bytes) (line 236).
SubLoopRuns == status = "running" /\ Top.sub /\ Top.epos < Len(Top.data_bytes)

SubLoopEnds == status = "running" /\ Top.sub /\ Top.epos >= Len(Top.data_bytes)

\* The outcome r of a loop step, applied to the top activation.
Apply(r) ==
  /\ short' = (short \/ r.short)
  /\ IF r.kind = "raise"
       THEN /\ Abort(r.err)
            /\ stack' = SetTop(r.frame)
     ELSE IF r.kind = "value"
       THEN \E a \in {Accumulated(r.frame, r.value)} :
            IF a.err # ""
              THEN /\ Abort(a.err)
                   /\ stack' = SetTop(r.frame)
              ELSE /\ stack' = SetTop(a.frame)
                   /\ UNCHANGED <<status, err, result>>
     ELSE IF r.kind = "call"
       THEN /\ stack' = Append(SetTop([r.frame EXCEPT !.wait =
                                         IF r.frame.sub THEN "entry" ELSE "field"]),
                               NewFrame(r.cls, r.data))
            /\ UNCHANGED <<status, err, result>>
     ELSE IF r.kind = "entry"
       THEN /\ stack' = SetTop([r.frame EXCEPT !.sub = TRUE, !.data_bytes = r.data,
                                               !.epos = 0, !.entry_key = PNone,
                                               !.entry_value = PNone])
            /\ UNCHANGED <<status, err, result>>
     ELSE /\ stack' = SetTop(r.frame)
          /\ UNCHANGED <<status, err, result>>

\* One pass of the while loop of model_validate_proto (lines 183-289).
ReadField ==
  /\ LoopRuns
  /\ \E r \in {read_field(Top)} : Apply(r)
  /\ UNCHANGED <<mode, self, di, output, emitted>>

\* One pass of the map-entry sub-loop (lines 236-268).
EntryField ==
  /\ SubLoopRuns
  /\ \E r \in {entry_field(Top)} : Apply(r)
  /\ UNCHANGED <<mode, self, di, output, emitted>>

\* The sub-loop ends: value = (entry_key, entry_value) (line 270) is
\* accumulated (lines 283-287).
EntryDone ==
  /\ SubLoopEnds
  /\ \E r \in {StepValue([Top EXCEPT !.sub = FALSE], FALSE,
                         PTuple(Top.entry_key, Top.entry_value))} : Apply(r)
  /\ UNCHANGED <<mode, self, di, output, emitted>>

\* The while loop ends: return cls(field_values) (line 291), to the caller
\* if this activation decodes a nested message.
Return ==
  /\ LoopEnds
  /\ \E r \in {ModelInit(Top.cls, Top.field_values)} : \E d \in {Len(stack)} :
        IF ~r.ok
          THEN /\ Abort("ValidationError")
               /\ UNCHANGED stack
        ELSE IF d = 1
          THEN /\ status' = "returned"
               /\ result' = r.v
               /\ UNCHANGED <<err, stack>>
        ELSE \E caller \in {stack[d - 1]} :
             IF caller.wait = "entry"
               THEN /\ stack' = [Take(stack, d - 1) EXCEPT ![d - 1] =
                                   [caller EXCEPT !.wait = "", !.entry_value = r.v]]
                    /\ UNCHANGED <<status, err, result>>
               ELSE \E a \in {Accumulated([caller EXCEPT !.wait = ""], r.v)} :
                    IF a.err # ""
                      THEN /\ Abort(a.err)
                           /\ UNCHANGED stack
                      ELSE /\ stack' = [Take(stack, d - 1) EXCEPT ![d - 1] = a.frame]
                           /\ UNCHANGED <<status, err, result>>
  /\ UNCHANGED <<mode, self, di, output, emitted, short>>

Next ==
  \/ DumpField
  \/ DumpReturn
  \/ ReadField
  \/ EntryField
  \/ EntryDone
  \/ Return

Spec == Init /\ [][Next]_vars

(* ------------------------------- claims ------------------------------- *)
Final == status \in {"returned", "error"}

\* The class of the call, and its schema.
CallCls == IF mode = "roundtrip" THEN self.cls ELSE stack[1].cls

SchemaOf(cls) == create_proto_map(ClassFields(cls))

\* The field a frame's last tag names, where the schema has it.
TagKnown(f) == f.tag >= 0 /\ MapHas(SchemaOf(f.cls), f.tag \div 8)

TagField(f) == ClassFields(f.cls)[MapGet(SchemaOf(f.cls), f.tag \div 8)]

\* Every element the dump loop has written, in output order.
RECURSIVE AllElems(_)
AllElems(em) ==
  IF em = <<>> THEN <<>> ELSE Head(em).elems \o AllElems(Tail(em))

\* b is exactly one varint.
IsOneVarint(b) ==
  /\ Len(b) >= 1
  /\ b[Len(b)] < 128
  /\ \A i \in 1..(Len(b) - 1) : b[i] >= 128

RECURSIVE VarintValue(_)
VarintValue(b) ==
  IF b = <<>> THEN 0 ELSE (Head(b) % 128) + 128 * VarintValue(Tail(b))

\* b is a length varint followed by exactly that many bytes.
IsLengthDelimited(b) ==
  \E n \in 1..Len(b) :
    /\ IsOneVarint(Take(b, n))
    /\ VarintValue(Take(b, n)) = Len(b) - n

\* val is framed as the wire type wt prescribes.
Framed(wt, val) ==
  \/ wt = 0 /\ IsOneVarint(val)
  \/ wt = 1 /\ Len(val) = 8
  \/ wt = 2 /\ IsLengthDelimited(val)

\* C1: for every record the dump accepts, validating the dumped bytes
\* returns a record equal to it.
C1_RoundTrip ==
  (mode = "roundtrip" /\ Final) => (status = "returned" /\ PyEq(result, self))

\* C2: every element written by the dump (each list element, each map
\* entry and each key / value sub-field of an entry) carries its field's
\* number in its tag and a value framed as the tag's wire type prescribes.
C2_Framing ==
  \A i \in 1..Len(emitted) :
    \A j \in 1..Len(emitted[i].elems) :
      LET e == emitted[i].elems[j] IN
      /\ e.key \div 8 = emitted[i].num
      /\ Framed(e.key % 8, e.val)
      /\ \A k \in 1..Len(e.sub) :
           /\ e.sub[k].key \div 8 = k
           /\ Framed(e.sub[k].key % 8, e.sub[k].val)

\* C3: the elements the dump writes appear in ascending field-number
\* order.
C3_Ordering ==
  LET el == AllElems(emitted) IN
  \A i, j \in 1..Len(el) : i < j => el[i].key \div 8 <= el[j].key \div 8

\* The field number the claim gives declared field i.
DeclaredNumber(fields, i) ==
  IF fields[i].extra.isdict /\ fields[i].extra.has THEN fields[i].extra.idx ELSE i

\* C4: the schema holds every declared field exactly once, under its
\* override or else its 1-based declaration position, with positive
\* numbers; once the dump loop has walked the schema it has passed every
\* declared field once.
C4_Schema ==
  (mode = "roundtrip" /\ status = "running") =>
    LET fields == ClassFields(self.cls)
        pm == SchemaOf(self.cls)
    IN \A i \in 1..Len(fields) :
         /\ Cardinality({k \in 1..Len(pm) : pm[k].idx = i}) = 1
         /\ \E k \in 1..Len(pm) :
              pm[k].idx = i /\ pm[k].num = DeclaredNumber(fields, i) /\ pm[k].num > 0
         /\ Cardinality({k \in 1..Len(emitted) : emitted[k].idx = i}) = 1

\* Whether a field is optional: it has a default or admits None.
IsOptional(field) == ~field.required \/ field.ann.k = "opt"

IsEmptyContainer(value) == value.k \in {"list", "dict"} /\ value.v = <<>>

AbsentOrDefault(field, value) ==
  \/ value.k = "none"
  \/ ~field.required /\ PyEq(value, field.default)

EmittedField(i) == ClassFields(self.cls)[emitted[i].idx]

EmittedValue(i) == self.v[EmittedField(i).name]

C6_Truncated == status = "returned" => ~short

\* C7: a tag whose field number is not in the schema ends the call with
\* UnknownField in the activation that read it, with the stream just after
\* the tag and no record.
C7_UnknownField ==
  \A d \in 1..Len(stack) :
    (stack[d].tag >= 0 /\ ~TagKnown(stack[d])) =>
      /\ d = Len(stack)
      /\ status = "error"
      /\ err = "UnknownField"
      /\ result = PNone
      /\ stack[d].pos = stack[d].tagend
      /\ ~stack[d].sub

\* An unknown tag met after a field has been decoded.
C7_Witness ==
  /\ status = "error"
  /\ err = "UnknownField"
  /\ DOMAIN Top.field_values # {}
  /\ Top.pos < Len(Top.data)

\* C8: a tag of wire type FIXED64 or LENGTH_DELIMITED for a field declared
\* int or bool ends the call with an error; no record is returned from it.
C8_WireTypeMismatch ==
  status = "returned" =>
    \A i \in 1..Len(stack[1].log) :
      LET e == stack[1].log[i]
          field == ClassFields(stack[1].cls)[FieldIndex(ClassFields(stack[1].cls), e.name)]
      IN ~(Unwrap(field.ann).k \in {"int", "bool"} /\ e.wt \in {1, 2})

\* The log entries of field n.
LogOf(f, n) == SelectSeq(f.log, LAMBDA e : e.name = n)

\* C9: in every activation, a list field's accumulated value is the
\* sequence of its decoded occurrences in wire order, and a dict field's
\* accumulated value maps each key to the value of the last entry with
\* that key (and holds no other key).
C9_Accumulation ==
  \A d \in 1..Len(stack) :
    LET f == stack[d]
        fields == ClassFields(f.cls)
    IN \A i \in 1..Len(fields) :
         LET n == fields[i].name
             o == Unwrap(fields[i].ann).k
             l == LogOf(f, n)
         IN /\ o \in {"list", "dict"} => (l = <<>> <=> n \notin DOMAIN f.field_values)
            /\ (o = "list" /\ l # <<>>) =>
                 f.field_values[n] = PList([j \in 1..Len(l) |-> l[j].value])
            /\ (o = "dict" /\ l # <<>>) =>
                 LET m == f.field_values[n].v IN
                 /\ f.field_values[n].k = "dict"
                 /\ \A j \in 1..Len(l) :
                      LET last == CHOOSE q \in 1..Len(l) :
                                    /\ PyEq(l[q].value.v[1], l[j].value.v[1])
                                    /\ \A r \in (q + 1)..Len(l) :
                                         ~PyEq(l[r].value.v[1], l[j].value.v[1])
                      IN /\ DictHas(m, l[j].value.v[1])
                         /\ DictGet(m, l[j].value.v[1]) = l[last].value.v[2]
                 /\ \A q \in 1..Len(m) : \E j \in 1..Len(l) : PyEq(l[j].value.v[1], m[q][1])
                 /\ \A q, r \in 1..Len(m) : q # r => ~PyEq(m[q][1], m[r][1])

\* An activation that has appended a second element to a list and
\* overwritten a map entry.
C9_Witness ==
  \E d \in 1..Len(stack) :
    LET f == stack[d] IN
    /\ \E n \in DOMAIN f.field_values :
         f.field_values[n].k = "list" /\ Len(f.field_values[n].v) >= 2
    /\ \E n \in DOMAIN f.field_values :
         /\ f.field_values[n].k = "dict"
         /\ \E j, q \in 1..Len(LogOf(f, n)) :
              /\ j < q
              /\ PyEq(LogOf(f, n)[j].value.v[1], LogOf(f, n)[q].value.v[1])
              /\ LogOf(f, n)[j].value.v[2] # LogOf(f, n)[q].value.v[2]

\* One step of the call, seen from the activation on top before it.
Advances ==
  (status = "running" /\ stack # <<>>) =>
    LET d == Len(stack)
        f == stack[d]
    IN /\ Len(stack') >= d =>
            /\ stack'[d].pos <= Len(f.data)
            /\ stack'[d].epos <= Len(stack'[d].data_bytes)
            /\ (~f.sub /\ f.pos < Len(f.data)) => stack'[d].pos > f.pos
            /\ (f.sub /\ f.epos < Len(f.data_bytes)) => stack'[d].epos > f.epos
       /\ Len(stack') > d => Len(stack'[d + 1].data) < Len(f.data)

\* What is left to do in an activation: three per unread byte of its
\* buffer, one for its return, and the same for a running sub-loop.
FrameMeasure(f) ==
  3 * (Len(f.data) - f.pos) + 1
  + (IF f.sub THEN 3 * (Len(f.data_bytes) - f.epos) + 1 ELSE 0)

RECURSIVE StackMeasure(_)
StackMeasure(st) ==
  IF st = <<>> THEN 0 ELSE FrameMeasure(Head(st)) + StackMeasure(Tail(st))

\* A non-negative variant of the call: zero once it has ended.
Measure(st, stk) == IF st = "running" THEN StackMeasure(stk) ELSE 0

\* C10: every pass of the loop and of the map-entry sub-loop strictly
\* advances its offset without passing the end of its buffer, every nested
\* decode runs on a payload shorter than the enclosing buffer, and the call
\* ends, with a record or an error: every step of a running call lowers
\* its non-negative variant, and a running call always has an activation
\* whose loop or sub-loop either runs another pass or ends.
C10_Terminates ==
  /\ [][Advances /\ (status = "running" =>
                       Measure(status', stack') < Measure(status, stack))]_vars
  /\ [](status = "running" =>
          /\ stack # <<>>
          /\ Measure(status, stack) > 0
          /\ LoopRuns \/ LoopEnds \/ SubLoopRuns \/ SubLoopEnds)

\* A nested decode started from inside a map entry, past its first tag.
C10_Witness ==
  /\ Len(stack) = 2
  /\ stack[1].wait = "entry"
  /\ stack[2].pos > 0
  /\ stack[2].pos < Len(stack[2].data)
====
